---- MODULE Spec2Model ----
(***************************************************************************)
(* bspinfo (src/src/main.rs): the BSP header reader BspFile::new, the lump *)
(* resolver BspFile::get_lump and the command line driver main.            *)
(*                                                                         *)
(* A file is a sequence of bytes (0..255); the byte at file offset o is    *)
(* s[o + 1].  The reader's cursor is a file offset.  All integers of the   *)
(* format are u32 values; the instances keep them below 2^31.              *)
(***************************************************************************)
EXTENDS Integers, Sequences, FiniteSets, TLC

VARIABLES
    args,     \* std::env::args(): Rust's args[i] is args[i + 1] here
    src,      \* the bytes of the file main opens (the reader R of BspFile)
    pc,       \* where main is: start, usage, panic_index, panic_unwrap, open, done
    header,   \* BspFile.header, NoHeader while no BspFile exists
    pos,      \* the cursor of BspFile.reader
    last      \* the most recent get_lump call: ordinal, cursor before, result

vars == <<args, src, pc, header, pos, last>>

----------------------------------------------------------------------------
(* Bounds of the checked instances. *)

\* Number of bytes of the raw blob stored right after the header.
BlobLen == 6
\* Number of symbols of the compressed stream inside the wrapper.
StreamLen == 3
\* Longest argument vector tried.
MaxArgs == 4

----------------------------------------------------------------------------
(* Program constants and types. *)

HEADER_LUMPS == 64
ENTITIES == 0
PLANES == 1
PAKFILE == 40
PHYSICS_LEVEL == 62
\* Bytes of one u32 field.
U32Size == 4
\* The four u32 fields of LumpInfo.
LumpInfoFields == 4
\* std's BufReader::new capacity (DEFAULT_BUF_SIZE).
BufReaderCapacity == 8192
\* b"LZMA"
LZMA == <<76, 90, 77, 65>>

LumpInfoSize == LumpInfoFields * U32Size
\* ident, version, lumps, map_revision
HeaderSize == U32Size + U32Size + HEADER_LUMPS * LumpInfoSize + U32Size

Max(a, b) == IF a >= b THEN a ELSE b
Min(a, b) == IF a <= b THEN a ELSE b

\* Option<Vec<u8>>
None == [tag |-> "None", bytes |-> <<>>]
Some(b) == [tag |-> "Some", bytes |-> b]

NoHeader == [ident |-> 0, version |-> 0, lumps |-> <<>>, map_revision |-> 0]
NoCall == [lump |-> -1, before |-> 0, result |-> None, prevLump |-> -1]

----------------------------------------------------------------------------
(* Reading from the source. *)

\* Bytes s[p .. p+n) of the file, as Read::read_exact delivers them.
Bytes(s, p, n) == [i \in 1..n |-> s[p + i]]

\* Read::read_exact of n bytes at cursor p: all n bytes or an error; after an
\* error the cursor is at the end of the file (or where it was, beyond it).
read_exact(s, p, n) ==
    IF p + n <= Len(s)
    THEN [ok |-> TRUE, bytes |-> Bytes(s, p, n), pos |-> p + n]
    ELSE [ok |-> FALSE, bytes |-> <<>>, pos |-> Max(p, Len(s))]

u32_from_be(b) ==
    b[4] + 256 * b[3] + 65536 * b[2] + 16777216 * b[1]

\* LittleEndian: the first byte is the least significant.
u32_from_le(b) ==
    b[1] + 256 * b[2] + 65536 * b[3] + 16777216 * b[4]

\* ReadBytesExt::read_u32::<LittleEndian>, and binrw's u32 under read_le.
read_u32(s, p) ==
    LET r == read_exact(s, p, U32Size)
    IN [ok |-> r.ok, val |-> IF r.ok THEN u32_from_le(r.bytes) ELSE 0, pos |-> r.pos]

\* LumpInfo::read_le at offset p (the caller has checked the length).
read_LumpInfo(s, p) ==
    [fileofs           |-> read_u32(s, p).val,
     filelen           |-> read_u32(s, p + U32Size).val,
     version           |-> read_u32(s, p + 2 * U32Size).val,
     uncompressed_size |-> read_u32(s, p + 3 * U32Size).val]

\* BspHeader::read_le at offset p: the fields in declaration order.
read_BspHeader(s, p) ==
    [ident        |-> read_u32(s, p).val,
     version      |-> read_u32(s, p + U32Size).val,
     lumps        |-> [k \in 1..HEADER_LUMPS |->
                          read_LumpInfo(s, p + 2 * U32Size + (k - 1) * LumpInfoSize)],
     map_revision |-> read_u32(s, p + 2 * U32Size + HEADER_LUMPS * LumpInfoSize).val]

ZeroPadded(s, n) == [i \in 1..Max(n, Len(s)) |-> IF i <= Len(s) THEN s[i] ELSE 0]

BspFile_new_unchecked(s, p) ==
    \* a reader that never reports a short header
    [ok |-> TRUE,
     header |-> read_BspHeader(ZeroPadded(s, p + HeaderSize), p),
     cursors |-> {p + HeaderSize}]

\* BspFile::new: the header is decoded field by field, each a read_exact, so it
\* fails exactly when fewer than HeaderSize bytes follow the cursor.  On failure
\* binrw may rewind the reader or leave it at the end of the file.
BspFile_new(s, p) ==
    IF p + HeaderSize <= Len(s)
    THEN [ok |-> TRUE, header |-> read_BspHeader(s, p), cursors |-> {p + HeaderSize}]
    ELSE [ok |-> FALSE, header |-> NoHeader, cursors |-> {p, Max(p, Len(s))}]

----------------------------------------------------------------------------
(* The decompressor.                                                       *)
(* lzma_rs is an external crate.  It is represented by a small stream      *)
(* format with the interface the call relies on: a 5 byte header           *)
(* (properties, dictionary size), then symbols.  A symbol below 128 is a   *)
(* literal and emits itself; a symbol 128..254 is a match and repeats the  *)
(* last output byte twice; 255 is invalid.  With UnpackedSize::UseProvided *)
(* (Some(n)) decoding stops once n bytes are out; the end of the input     *)
(* before that is an error unless allow_incomplete; more than n bytes out  *)
(* is an error.                                                            *)
(***************************************************************************)
LzmaHeaderLen == 5
LzmaMaxProps == 224

RECURSIVE LzmaLoop(_, _, _, _, _)
LzmaLoop(stream, i, out, n, allow_incomplete) ==
    IF Len(out) >= n
    THEN [ok |-> Len(out) = n, bytes |-> out]
    ELSE IF i > Len(stream)
    THEN [ok |-> allow_incomplete, bytes |-> out]
    ELSE LET b == stream[i] IN
         IF b < 128 THEN LzmaLoop(stream, i + 1, Append(out, b), n, allow_incomplete)
         ELSE IF b < 255 /\ Len(out) > 0
         THEN LzmaLoop(stream, i + 1, out \o <<out[Len(out)], out[Len(out)]>>, n,
                       allow_incomplete)
         ELSE [ok |-> FALSE, bytes |-> out]

LzmaDecode(stream, n, allow_incomplete) ==
    IF Len(stream) < LzmaHeaderLen \/ stream[1] > LzmaMaxProps
    THEN [ok |-> FALSE, bytes |-> <<>>]
    ELSE LzmaLoop(stream, LzmaHeaderLen + 1, <<>>, n, allow_incomplete)

lzma_decompress_allow_incomplete(stream, n) == LzmaDecode(stream, n, TRUE)

\* lzma_rs::lzma_decompress_with_options(.., Options { unpacked_size:
\* UseProvided(Some(actual_size)), allow_incomplete: false, memlimit: None })
lzma_decompress_with_options(stream, n) == LzmaDecode(stream, n, FALSE)

----------------------------------------------------------------------------
(* BspFile::get_lump *)

absent_if_both_zero(lump) == lump.fileofs = 0 /\ lump.filelen = 0

\* if lump.fileofs == 0 || lump.filelen == 0 { return None; }
absent(lump) == lump.fileofs = 0 \/ lump.filelen = 0

seek_from_current(p, ofs) == p + ofs

seek_omitted(p, ofs) == p

\* self.reader.seek(io::SeekFrom::Start(lump.fileofs.into())): absolute, and
\* a seek beyond the end of a file succeeds.
seek(p, ofs) == ofs

\* The uncompressed branch: a zeroed buffer of filelen bytes, read_exact.
get_lump_raw(s, p, filelen) ==
    LET r == read_exact(s, p, filelen)
    IN [result |-> IF r.ok THEN Some(r.bytes) ELSE None, cursors |-> {r.pos}]

\* The compressed branch, the cursor at the wrapper.
get_lump_compressed(s, p) ==
    LET tag == read_exact(s, p, Len(LZMA)) IN
    IF ~tag.ok
    THEN \* <[u8; 4]>::read failed; binrw may have rewound the reader
         [result |-> None, cursors |-> {p, tag.pos}]
    ELSE IF tag.bytes # LZMA
    THEN [result |-> None, cursors |-> {tag.pos}]
    ELSE LET actual_size == read_u32(s, tag.pos) IN
         IF ~actual_size.ok THEN [result |-> None, cursors |-> {actual_size.pos}]
         ELSE LET lzma_size == read_u32(s, actual_size.pos) IN
              IF ~lzma_size.ok THEN [result |-> None, cursors |-> {lzma_size.pos}]
              ELSE LET rest == Bytes(s, lzma_size.pos, Len(s) - lzma_size.pos)
                       d == lzma_decompress_with_options(rest, actual_size.val)
                   IN \* the BufReader has filled its buffer from the reader
                      [result |-> IF d.ok THEN Some(d.bytes) ELSE None,
                       cursors |-> {Min(Len(s), lzma_size.pos + BufReaderCapacity)}]

\* get_lump on header h, source s, cursor p, ordinal l: the result and the
\* cursors the reader may be left at.
get_lump(h, s, p, l) ==
    IF l >= Len(h.lumps)
    THEN [result |-> None, cursors |-> {p}]
    ELSE LET lump == h.lumps[l + 1] IN
         IF absent(lump)
         THEN [result |-> None, cursors |-> {p}]
         ELSE LET p1 == seek(p, lump.fileofs) IN
              IF lump.uncompressed_size # 0
              THEN get_lump_compressed(s, p1)
              ELSE get_lump_raw(s, p1, lump.filelen)

----------------------------------------------------------------------------
(* The files and argument vectors tried. *)

EncodeU32LE(v) ==
    <<v % 256, (v \div 256) % 256, (v \div 65536) % 256, (v \div 16777216) % 256>>

EncodeLump(e) ==
    EncodeU32LE(e.fileofs) \o EncodeU32LE(e.filelen) \o EncodeU32LE(e.version)
        \o EncodeU32LE(e.uncompressed_size)

RECURSIVE EncodeLumps(_, _)
EncodeLumps(ls, k) ==
    IF k > Len(ls) THEN <<>> ELSE EncodeLump(ls[k]) \o EncodeLumps(ls, k + 1)

EncodeHeader(h) ==
    EncodeU32LE(h.ident) \o EncodeU32LE(h.version) \o EncodeLumps(h.lumps, 1)
        \o EncodeU32LE(h.map_revision)

Entry(o, l, v, u) == [fileofs |-> o, filelen |-> l, version |-> v, uncompressed_size |-> u]

BlobOfs == HeaderSize
WrapOfs == HeaderSize + BlobLen
WrapLen == Len(LZMA) + 2 * U32Size + LzmaHeaderLen + StreamLen
FullLen == WrapOfs + WrapLen

Blob == [i \in 1..BlobLen |-> 10 + i]

\* An unused slot: absent either by its offset or by its length, the other
\* fields arbitrary.
SyntheticLump(i) ==
    IF i % 2 = 1
    THEN Entry(0, 256 * (i + 1) + i, 65536 * i + 1, i)
    ELSE Entry(HeaderSize + i, 0, i, 256 * i + 2)

EntitiesEntries ==
    { Entry(0, BlobLen, 1, 0),
      Entry(BlobOfs, 0, 0, 5),
      Entry(BlobOfs, BlobLen, 0, 0),
      Entry(BlobOfs + 1, BlobLen - 2, 7, 0),
      Entry(WrapOfs, WrapLen, 0, 0),
      Entry(BlobOfs, BlobLen + WrapLen + 3, 0, 0),
      Entry(HeaderSize + 4096, 4, 0, 0),
      Entry(WrapOfs, WrapLen, 0, StreamLen),
      Entry(WrapOfs, WrapLen, 1, StreamLen + 1),
      Entry(BlobOfs, BlobLen, 0, BlobLen) }

PakfileEntries ==
    { Entry(0, 0, 0, 0),
      Entry(BlobOfs, BlobLen, 0, 0),
      Entry(WrapOfs, WrapLen, 0, StreamLen) }

Directory(e0, e40) ==
    [k \in 1..HEADER_LUMPS |->
        IF k - 1 = ENTITIES THEN e0
        ELSE IF k - 1 = PAKFILE THEN e40
        ELSE SyntheticLump(k - 1)]

PlainStream == [i \in 1..StreamLen |-> 20 + i]

Streams ==
    { [i \in 1..StreamLen |-> IF i = k THEN sym ELSE 20 + i] :
          k \in 1..StreamLen, sym \in {20, 130, 255} }

Wrapper(tag, actual, props, stream) ==
    tag \o EncodeU32LE(actual) \o EncodeU32LE(Len(stream) + LzmaHeaderLen)
        \o <<props>> \o EncodeU32LE(65536) \o stream

Wrappers ==
    { Wrapper(LZMA, n, 93, st) : n \in {StreamLen - 1, StreamLen, StreamLen + 2},
                                 st \in Streams }
    \cup { Wrapper(<<76, 90, 77, 66>>, StreamLen, 93, PlainStream),
           Wrapper(LZMA, StreamLen, 225, PlainStream),
           Wrapper(LZMA, 0, 93, PlainStream) }

PlainWrapper == Wrapper(LZMA, StreamLen, 93, PlainStream)

Truncations ==
    { 0, U32Size, HeaderSize - 1, HeaderSize, BlobOfs + BlobLen - 1,
      WrapOfs + 2, WrapOfs + 6, WrapOfs + 10, WrapOfs + 14, FullLen - 1 }

File(ident, version, revision, e0, e40, w, len) ==
    SubSeq(EncodeHeader([ident |-> ident, version |-> version,
                         lumps |-> Directory(e0, e40), map_revision |-> revision])
             \o Blob \o w, 1, len)

VBSP == 1347633750

Files ==
    { File(VBSP, 20, 4, e0, e40, w, FullLen) :
          e0 \in EntitiesEntries, e40 \in PakfileEntries, w \in Wrappers }
    \cup { File(VBSP, 20, 4, e0, e40, PlainWrapper, len) :
          e0 \in EntitiesEntries, e40 \in PakfileEntries, len \in Truncations }
    \cup { File(0, 16909060, 67305985, e0, Entry(0, 0, 0, 0), PlainWrapper, FullLen) :
          e0 \in EntitiesEntries }

DriverFiles ==
    { File(VBSP, 20, 4, Entry(BlobOfs, BlobLen, 0, 0), Entry(WrapOfs, WrapLen, 0, StreamLen),
           PlainWrapper, len) : len \in {HeaderSize - 1, FullLen} }

Commands == {"files", "entities", "lumps"}

ArgVectors ==
    { [i \in 1..n |-> IF i = 1 THEN "bspinfo"
                      ELSE IF i = 2 THEN c
                      ELSE IF i = 3 THEN "map.bsp" ELSE "extra"] :
          n \in 0..MaxArgs, c \in Commands }

DefaultArgs == <<"bspinfo", "files", "map.bsp">>

\* The ordinals get_lump is called with.
Probed == {ENTITIES, PLANES, PAKFILE, PHYSICS_LEVEL}

----------------------------------------------------------------------------
(* The state machine. *)

Init ==
    /\ \E c \in (ArgVectors \X DriverFiles) \cup ({DefaultArgs} \X Files) :
          /\ args = c[1]
          /\ src = c[2]
    /\ pc = "start"
    /\ header = NoHeader
    /\ pos = 0
    /\ last = NoCall

\* main: if args.len() < 2 { usage(); return; }
MainUsage ==
    /\ pc = "start"
    /\ Len(args) < 2
    /\ pc' = "usage"
    /\ UNCHANGED <<args, src, header, pos, last>>

\* main: File::open(&args[2]).unwrap(); BspFile::new(&mut reader).unwrap()
\* (the file named by args[2] exists and holds src)
MainOpen ==
    /\ pc = "start"
    /\ ~(Len(args) < 2)
    /\ IF Len(args) < 3
       THEN \* args[2]: index out of bounds
            /\ pc' = "panic_index"
            /\ UNCHANGED <<header, pos>>
       ELSE LET r == BspFile_new(src, 0) IN
            /\ pc' = IF r.ok THEN "open" ELSE "panic_unwrap"
            /\ header' = r.header
            /\ pos' \in r.cursors
    /\ UNCHANGED <<args, src, last>>

Call(l) ==
    LET r == get_lump(header, src, pos, l) IN
    /\ pos' \in r.cursors
    /\ last' = [lump |-> l, before |-> pos, result |-> r.result, prevLump |-> last.lump]

\* A caller of the session resolves any lump, any number of times.
GetLump ==
    /\ pc = "open"
    /\ \E l \in Probed : Call(l)
    /\ UNCHANGED <<args, src, pc, header>>

\* main: match args[1]: "files" => get_lump(PAKFILE), then the archive listing; the zip
\* crate's verdict on the bytes is not modelled: unwrap may panic.
MainFiles ==
    /\ pc = "open"
    /\ args[2] = "files"
    /\ Call(PAKFILE)
    /\ pc' \in IF last'.result.tag = "Some" THEN {"done", "panic_unwrap"} ELSE {"done"}
    /\ UNCHANGED <<args, src, header>>

\* main: "entities" => get_lump(ENTITIES), copied to stdout
MainEntities ==
    /\ pc = "open"
    /\ args[2] = "entities"
    /\ Call(ENTITIES)
    /\ pc' = "done"
    /\ UNCHANGED <<args, src, header>>

\* main: _ => usage()
MainOther ==
    /\ pc = "open"
    /\ args[2] \notin {"files", "entities"}
    /\ pc' = "usage"
    /\ UNCHANGED <<args, src, header, pos, last>>

Next ==
    \/ MainUsage
    \/ MainOpen
    \/ GetLump
    \/ MainFiles
    \/ MainEntities
    \/ MainOther

Spec == Init /\ [][Next]_vars

----------------------------------------------------------------------------
(* The claims. *)

Called == last.lump # -1
LastEntry == header.lumps[last.lump + 1]
IsRaw(e) == e.fileofs # 0 /\ e.filelen # 0 /\ e.uncompressed_size = 0
IsCompressed(e) == e.fileofs # 0 /\ e.filelen # 0 /\ e.uncompressed_size # 0
\* The u32 stored little-endian at file offset o.
StoredU32(o) == src[o + 1] + 256 * src[o + 2] + 65536 * src[o + 3] + 16777216 * src[o + 4]
HasLzmaTag(o) ==
    /\ o + 4 <= Len(src)
    /\ <<src[o + 1], src[o + 2], src[o + 3], src[o + 4]>> = <<76, 90, 77, 65>>

\* C1: a call on an entry with fileofs = 0 or filelen = 0 returns None and
\* leaves the cursor where it was, whatever the other fields and the source.
C1_AbsentEntryIsNone ==
    (Called /\ (LastEntry.fileofs = 0 \/ LastEntry.filelen = 0))
        => (last.result = None /\ pos = last.before)

C1_Witness ==
    /\ Called
    /\ LastEntry.fileofs = 0 /\ LastEntry.filelen # 0
    /\ LastEntry.version # 0 /\ LastEntry.uncompressed_size # 0
    /\ last.before # HeaderSize
    /\ last.result = None

\* C2: a call on a raw entry whose range lies inside the source returns exactly
\* the filelen bytes at fileofs, wherever the cursor was before the call.
C2_RawPathIdentity ==
    (Called /\ IsRaw(LastEntry) /\ LastEntry.fileofs + LastEntry.filelen <= Len(src))
        => /\ last.result.tag = "Some"
           /\ Len(last.result.bytes) = LastEntry.filelen
           /\ \A i \in 1..LastEntry.filelen :
                 last.result.bytes[i] = src[LastEntry.fileofs + i]

C2_Witness ==
    /\ Called /\ IsRaw(LastEntry)
    /\ LastEntry.fileofs + LastEntry.filelen <= Len(src)
    /\ last.before \notin {HeaderSize, LastEntry.fileofs}
    /\ last.result.tag = "Some"
    /\ Len(last.result.bytes) > 1

\* C3: whenever a call on a compressed entry returns bytes, their number is the
\* directory entry's uncompressed_size.
C3_CompressedLengthIsDeclared ==
    (Called /\ IsCompressed(LastEntry) /\ last.result.tag = "Some")
        => Len(last.result.bytes) = LastEntry.uncompressed_size

\* C4: a call on a compressed entry whose 4 bytes at fileofs are not "LZMA"
\* yields an error outcome: neither bytes nor the absent outcome None.
C4_TagMismatchIsError ==
    (Called /\ IsCompressed(LastEntry) /\ LastEntry.fileofs + 4 <= Len(src)
            /\ ~HasLzmaTag(LastEntry.fileofs))
        => (last.result.tag # "Some" /\ last.result # None)

\* C5: every call returns what the same call returns as the first call after
\* BspFile::new, whatever calls came before and wherever they left the cursor.
C5_CallsAreIndependent ==
    Called => last.result = get_lump(header, src, 1036, last.lump).result

\* a well-formed lump resolved right after a corrupt compressed one
C5_Witness ==
    /\ Called /\ last.prevLump # -1 /\ last.prevLump # last.lump
    /\ IsCompressed(header.lumps[last.prevLump + 1])
    /\ HasLzmaTag(header.lumps[last.prevLump + 1].fileofs)
    /\ get_lump(header, src, 1036, last.prevLump).result = None
    /\ last.before # 1036
    /\ last.result.tag = "Some"

\* C6: BspFile::new decodes the 1036 bytes at the start of the source in
\* little-endian order: the header re-encodes to exactly those bytes, entry i
\* is the 16 bytes at offset 8 + 16*i, map_revision the u32 at offset 1032, no
\* magic or version is rejected, and the cursor is left at offset 1036.
C6_HeaderRoundTrip ==
    /\ (pc # "start" /\ Len(args) >= 3 /\ Len(src) >= 1036) => header # NoHeader
    /\ header # NoHeader =>
          /\ Len(header.lumps) = 64
          /\ EncodeHeader(header) = SubSeq(src, 1, 1036)
          /\ EncodeU32LE(header.ident) = SubSeq(src, 1, 4)
          /\ EncodeU32LE(header.version) = SubSeq(src, 5, 8)
          /\ \A i \in 0..63 :
                EncodeLump(header.lumps[i + 1]) = SubSeq(src, 8 + 16 * i + 1, 8 + 16 * i + 16)
          /\ EncodeU32LE(header.map_revision) = SubSeq(src, 1033, 1036)
    /\ (pc = "open" /\ ~Called) => pos = 1036

C6_Witness ==
    /\ pc = "open" /\ ~Called
    /\ header.ident = 0
    /\ header.version = 16909060
    /\ header.map_revision = 67305985
    /\ header.lumps[64].filelen = 256 * 64 + 63

\* C7: None is returned only for an absent entry (fileofs = 0 or filelen = 0);
\* every failure is an outcome a caller can tell apart from it.
C7_NoneOnlyWhenAbsent ==
    (Called /\ last.result = None)
        => (LastEntry.fileofs = 0 \/ LastEntry.filelen = 0)

\* C8: on a source shorter than 1036 bytes BspFile::new fails: no header, not
\* even a partial one, is ever held, and no get_lump call takes place.
C8_ShortSourceNoSession ==
    Len(src) < 1036
        => (header = NoHeader /\ pc \notin {"open", "done"} /\ ~Called)

C8_Witness ==
    /\ Len(src) = 1035
    /\ Len(args) >= 3
    /\ pc = "panic_unwrap"

\* C9: a returned buffer is the complete lump: the raw path returns filelen
\* bytes or nothing, the compressed path the wrapper's actual_size bytes or
\* nothing; a range or wrapper cut short by the end of the source, or a stream
\* that ends early, returns nothing.
C9_NoPartialBuffer ==
    Called =>
        LET e == LastEntry
            r == last.result
        IN /\ (IsRaw(e) /\ e.fileofs + e.filelen > Len(src)) => r = None
           /\ (IsRaw(e) /\ r.tag = "Some") => Len(r.bytes) = e.filelen
           /\ (IsCompressed(e) /\ e.fileofs + 12 > Len(src)) => r = None
           /\ (IsCompressed(e) /\ r.tag = "Some")
                 => Len(r.bytes) = StoredU32(e.fileofs + 4)
           /\ (IsCompressed(e) /\ e.fileofs + 12 <= Len(src)
                 /\ 2 * (Len(src) - (e.fileofs + 12 + LzmaHeaderLen))
                       < StoredU32(e.fileofs + 4))
                 => r = None
           /\ r.tag = "None" => r.bytes = <<>>

\* the stream of a well-formed wrapper cut short by the end of the file
C9_Witness ==
    /\ Called /\ IsCompressed(LastEntry)
    /\ HasLzmaTag(LastEntry.fileofs)
    /\ Len(src) = LastEntry.fileofs + LastEntry.filelen - 1
    /\ Len(src) > LastEntry.fileofs + 12 + LzmaHeaderLen
    /\ StoredU32(LastEntry.fileofs + 4) > 0
    /\ last.result = None

\* C10: with fewer than the two required arguments (a command and a map
\* path) main prints the usage line and returns: it never panics.
C10_TooFewArgsIsUsage ==
    Len(args) < 3 => pc \in {"start", "usage"}

====
